---- MODULE Spec2Model ----
(***************************************************************************)
(* Home endpoints of the inventory service (src/controllers/home.py).      *)
(*                                                                         *)
(* Two GET routes, "/" (info) and "/version" (version), each of which      *)
(* builds a dict from os.environ lookups with defaults and returns         *)
(* (jsonify(dict), 200).                                                   *)
(*                                                                         *)
(* Spec      one request at a time, each handler one atomic action, the    *)
(*           process environment free to change between requests.          *)
(* SpecConc  several worker threads, each handler split at the             *)
(*           evaluation of every dict entry, the environment fixed.        *)
(***************************************************************************)
EXTENDS Naturals, FiniteSets, Sequences, TLC

\* Number of worker threads serving requests in parallel (SpecConc).
MaxThreads == 2

Threads == 1..MaxThreads

\* Python's None, comparable with the records it stands in for.
None == [none |-> TRUE]

\* The environment variables the handlers look up.
EnvNames == {"NAME", "VERSION", "FLASK_ENV"}

\* The values each variable may be set to; the empty string is a value.
EnvValues(k) ==
    CASE k = "NAME"      -> {"", "foo"}
      [] k = "VERSION"   -> {"", "2.3.4"}
      [] k = "FLASK_ENV" -> {"", "production"}

\* os.environ: a mapping whose domain is the set of variables that are set.
Environs ==
    UNION { { e \in [S -> {"", "foo", "2.3.4", "production"}] :
                \A k \in S : e[k] \in EnvValues(k) } : S \in SUBSET EnvNames }

\* What a client may attach to a GET: a query string and a body.
NoPayload == [args |-> "", data |-> ""]

Requests ==
    { NoPayload,
      [args |-> "NAME=evil&VERSION=0", data |-> ""],
      [args |-> "NAME=evil&VERSION=0", data |-> "{\"FLASK_ENV\": \"test\"}"] }

Routes == {"/", "/version"}

VARIABLES
    environ,    \* os.environ of the serving process
    last,       \* per route, the most recent exchange: request, environ then, response
    threads     \* per worker thread: pc, request, the dict under construction, return value

vars == <<environ, last, threads>>

----------------------------------------------------------------------------
\* Mutant of environ_get: `os.environ.get(key) or default`, which also replaces
\* an empty value by the default.
environ_get_or(e, key, default) ==
    IF key \in DOMAIN e /\ e[key] # "" THEN e[key] ELSE default

\* os.environ.get(key, default): the value when the key is set, else default.
environ_get(e, key, default) ==
    IF key \in DOMAIN e THEN e[key] ELSE default

\* flask.jsonify(d): a JSON response whose object has d's keys and values.
jsonify(d) ==
    [mimetype |-> "application/json", json |-> d]

\* A view's (response, status) return value as the response Flask sends.
make_response(rv, status) ==
    [status |-> status, mimetype |-> rv.mimetype, json |-> rv.json]

\* Mutant of info: the environment label defaults to "production".
info_prod_default(e) ==
    make_response(
        jsonify([service     |-> environ_get(e, "NAME", "inventory-service"),
                 version     |-> environ_get(e, "VERSION", "1.0.0"),
                 description |-> "Inventory management microservice for xShop.ai platform",
                 environment |-> environ_get(e, "FLASK_ENV", "production")]),
        200)

\* Mutant of info: os.environ['NAME'], whose KeyError Flask answers with a 500.
info_strict(e) ==
    IF "NAME" \in DOMAIN e
    THEN make_response(
             jsonify([service     |-> e["NAME"],
                      version     |-> environ_get(e, "VERSION", "1.0.0"),
                      description |-> "Inventory management microservice for xShop.ai platform",
                      environment |-> environ_get(e, "FLASK_ENV", "development")]),
             200)
    ELSE [status |-> 500, mimetype |-> "text/html", json |-> None]

\* info(): the return value of the "/" view under environment e.
info(e) ==
    make_response(
        jsonify([service     |-> environ_get(e, "NAME", "inventory-service"),
                 version     |-> environ_get(e, "VERSION", "1.0.0"),
                 description |-> "Inventory management microservice for xShop.ai platform",
                 environment |-> environ_get(e, "FLASK_ENV", "development")]),
        200)

\* Mutant of version: the two lookups under each other's key.
version_swapped(e) ==
    make_response(
        jsonify([version |-> environ_get(e, "NAME", "inventory-service"),
                 service |-> environ_get(e, "VERSION", "1.0.0")]),
        200)

\* Mutant of version: the body also reports FLASK_ENV.
version_with_env(e) ==
    make_response(
        jsonify([version     |-> environ_get(e, "VERSION", "1.0.0"),
                 service     |-> environ_get(e, "NAME", "inventory-service"),
                 environment |-> environ_get(e, "FLASK_ENV", "development")]),
        200)

\* version(): the return value of the "/version" view under environment e.
version(e) ==
    make_response(
        jsonify([version |-> environ_get(e, "VERSION", "1.0.0"),
                 service |-> environ_get(e, "NAME", "inventory-service")]),
        200)

Exchange(req, e, resp) ==
    [request |-> req, environ |-> e, response |-> resp]

----------------------------------------------------------------------------
\* Sequential serving: the route decorator dispatches a GET to its view.

\* Mutant of GetInfo: the settings are loaded on the first request, which is
\* itself answered from the defaults.
GetInfo_warmup(req) ==
    /\ last' = [last EXCEPT !["/"] =
                   Exchange(req, environ,
                            IF last["/"] = None THEN info(<<>>) ELSE info(environ))]
    /\ UNCHANGED <<environ, threads>>

\* Mutant of GetInfo: the first response is memoised and served from then on.
GetInfo_cached(req) ==
    /\ last' = [last EXCEPT !["/"] =
                   Exchange(req, environ,
                            IF last["/"] = None THEN info(environ)
                                                ELSE last["/"].response)]
    /\ UNCHANGED <<environ, threads>>

\* GET / : runs info() to completion and sends what it returns.
GetInfo(req) ==
    /\ last' = [last EXCEPT !["/"] = Exchange(req, environ, info(environ))]
    /\ UNCHANGED <<environ, threads>>

\* Mutant of GetVersion: os.environ.setdefault('NAME', 'inventory-service').
GetVersion_setdefault(req) ==
    /\ environ' = [x \in DOMAIN environ \cup {"NAME"} |->
                      IF x \in DOMAIN environ THEN environ[x] ELSE "inventory-service"]
    /\ last' = [last EXCEPT !["/version"] = Exchange(req, environ, version(environ'))]
    /\ UNCHANGED threads

\* Mutant of GetVersion: a query string overrides the reported service name.
GetVersion_args(req) ==
    /\ last' = [last EXCEPT !["/version"] =
                   Exchange(req, environ,
                            IF req.args = "" THEN version(environ)
                            ELSE [version(environ) EXCEPT !.json.service = "evil"])]
    /\ UNCHANGED <<environ, threads>>

\* GET /version : runs version() to completion and sends what it returns.
GetVersion(req) ==
    /\ last' = [last EXCEPT !["/version"] = Exchange(req, environ, version(environ))]
    /\ UNCHANGED <<environ, threads>>

\* The deployment sets or alters a variable between requests.
setenv(k, v) ==
    /\ environ' = [x \in DOMAIN environ \cup {k} |-> IF x = k THEN v ELSE environ[x]]
    /\ environ' # environ
    /\ UNCHANGED <<last, threads>>

\* The deployment removes a variable between requests.
unsetenv(k) ==
    /\ k \in DOMAIN environ
    /\ environ' = [x \in DOMAIN environ \ {k} |-> environ[x]]
    /\ UNCHANGED <<last, threads>>

----------------------------------------------------------------------------
\* Parallel serving: each worker thread runs one view at a time, and a view
\* is interruptible between the evaluations of its dict entries.

IdleThread == [pc |-> "idle", route |-> "", request |-> None, d |-> <<>>, rv |-> None]

\* d[key] = value on the dict literal under construction.
Put(d, key, value) ==
    [x \in DOMAIN d \cup {key} |-> IF x = key THEN value ELSE d[x]]

At(t, pc) == threads[t].pc = pc

Step(t, pc, d) ==
    /\ threads' = [threads EXCEPT ![t].pc = pc, ![t].d = d]
    /\ UNCHANGED <<environ, last>>

\* The routing layer hands a GET for one of the two routes to an idle worker.
Accept(t, route, req) ==
    /\ At(t, "idle")
    /\ threads' = [threads EXCEPT ![t] =
                      [pc |-> IF route = "/" THEN "info_service" ELSE "version_version",
                       route |-> route, request |-> req, d |-> <<>>, rv |-> None]]
    /\ UNCHANGED <<environ, last>>

info_service(t) ==
    /\ At(t, "info_service")
    /\ Step(t, "info_version",
            Put(threads[t].d, "service", environ_get(environ, "NAME", "inventory-service")))

info_version(t) ==
    /\ At(t, "info_version")
    /\ Step(t, "info_description",
            Put(threads[t].d, "version", environ_get(environ, "VERSION", "1.0.0")))

info_description(t) ==
    /\ At(t, "info_description")
    /\ Step(t, "info_environment",
            Put(threads[t].d, "description",
                "Inventory management microservice for xShop.ai platform"))

info_environment(t) ==
    /\ At(t, "info_environment")
    /\ Step(t, "info_return",
            Put(threads[t].d, "environment", environ_get(environ, "FLASK_ENV", "development")))

info_return(t) ==
    /\ At(t, "info_return")
    /\ threads' = [threads EXCEPT ![t].pc = "done",
                                  ![t].rv = make_response(jsonify(threads[t].d), 200)]
    /\ UNCHANGED <<environ, last>>

version_version(t) ==
    /\ At(t, "version_version")
    /\ Step(t, "version_service",
            Put(threads[t].d, "version", environ_get(environ, "VERSION", "1.0.0")))

version_service(t) ==
    /\ At(t, "version_service")
    /\ Step(t, "version_return",
            Put(threads[t].d, "service", environ_get(environ, "NAME", "inventory-service")))

\* Mutant of version_return: both views fill one module-level dict.
version_return_shared(t) ==
    /\ At(t, "version_return")
    /\ LET keys   == UNION {DOMAIN threads[u].d : u \in Threads}
           shared == [k \in keys |->
                        threads[CHOOSE u \in Threads : k \in DOMAIN threads[u].d].d[k]]
       IN  threads' = [threads EXCEPT ![t].pc = "done",
                                      ![t].rv = make_response(jsonify(shared), 200)]
    /\ UNCHANGED <<environ, last>>

version_return(t) ==
    /\ At(t, "version_return")
    /\ threads' = [threads EXCEPT ![t].pc = "done",
                                  ![t].rv = make_response(jsonify(threads[t].d), 200)]
    /\ UNCHANGED <<environ, last>>

\* The response is on the wire; the view's locals are gone.
Send(t) ==
    /\ At(t, "done")
    /\ threads' = [threads EXCEPT ![t] = IdleThread]
    /\ UNCHANGED <<environ, last>>

Init ==
    /\ environ \in Environs
    /\ last = [r \in Routes |-> None]
    /\ threads = [t \in Threads |-> IdleThread]

Next ==
    \/ \E req \in Requests : GetInfo(req)
    \/ \E req \in Requests : GetVersion(req)
    \/ \E k \in EnvNames : \E v \in EnvValues(k) : setenv(k, v)
    \/ \E k \in EnvNames : unsetenv(k)

Spec == Init /\ [][Next]_vars

NextConc ==
    \/ \E t \in Threads : \E route \in Routes : \E req \in Requests : Accept(t, route, req)
    \/ \E t \in Threads : info_service(t)
    \/ \E t \in Threads : info_version(t)
    \/ \E t \in Threads : info_description(t)
    \/ \E t \in Threads : info_environment(t)
    \/ \E t \in Threads : info_return(t)
    \/ \E t \in Threads : version_version(t)
    \/ \E t \in Threads : version_service(t)
    \/ \E t \in Threads : version_return(t)
    \/ \E t \in Threads : Send(t)

SpecConc == Init /\ [][NextConc]_vars

----------------------------------------------------------------------------
\* What the claims read off an exchange.

Served(r) == last[r] # None

Body(r) == last[r].response.json

Description == "Inventory management microservice for xShop.ai platform"

\* The value a field must carry under environment e: the variable when set.
Expected(e, k, default) == IF k \in DOMAIN e THEN e[k] ELSE default

\* C1: the body of GET / has exactly the fields service, version, description
\* and environment; service, version and environment are NAME, VERSION and
\* FLASK_ENV of the environment the request was handled in when set, else
\* "inventory-service", "1.0.0" and "development"; description is the literal.
C1_InfoBody ==
    Served("/") =>
        LET e == last["/"].environ
            b == Body("/")
        IN  /\ DOMAIN b = {"service", "version", "description", "environment"}
            /\ b.service = Expected(e, "NAME", "inventory-service")
            /\ b.version = Expected(e, "VERSION", "1.0.0")
            /\ b.environment = Expected(e, "FLASK_ENV", "development")
            /\ b.description = Description

\* GET / was served with NAME and FLASK_ENV set and VERSION absent.
C1_Witness ==
    /\ Served("/")
    /\ DOMAIN last["/"].environ = {"NAME", "FLASK_ENV"}
    /\ last["/"].environ["NAME"] = "foo"
    /\ last["/"].environ["FLASK_ENV"] = "production"
    /\ Body("/").version = "1.0.0"

\* C2: the body of GET /version has exactly the fields version and service,
\* VERSION and NAME of the environment the request was handled in when set,
\* else "1.0.0" and "inventory-service".
C2_VersionBody ==
    Served("/version") =>
        LET e == last["/version"].environ
            b == Body("/version")
        IN  /\ DOMAIN b = {"version", "service"}
            /\ b.version = Expected(e, "VERSION", "1.0.0")
            /\ b.service = Expected(e, "NAME", "inventory-service")

\* GET /version was served with VERSION set and NAME absent.
C2_Witness ==
    /\ Served("/version")
    /\ "NAME" \notin DOMAIN last["/version"].environ
    /\ "VERSION" \in DOMAIN last["/version"].environ
    /\ Body("/version").version = "2.3.4"
    /\ Body("/version").service = "inventory-service"

\* C3: in every reachable state both a GET / and a GET /version can be served,
\* and every response either route has produced is a JSON response with
\* status 200.
C3_AlwaysOk ==
    /\ \A req \in Requests : ENABLED GetInfo(req) /\ ENABLED GetVersion(req)
    /\ \A r \in Routes :
          Served(r) => /\ last[r].response.status = 200
                       /\ last[r].response.mimetype = "application/json"
                       /\ last[r].response.json # None

\* Both routes were served while no variable at all was set.
C3_Witness ==
    \A r \in Routes : Served(r) /\ DOMAIN last[r].environ = {}
                                /\ last[r].response.status = 200

\* C4: a request to a route, served under the same environment as the previous
\* request to that route, gets the same status and body, whatever was served
\* or changed in between.
C4_Idempotent ==
    [][\A r \in Routes :
          (Served(r) /\ last'[r] # None /\ last'[r].environ = last[r].environ)
             => last'[r].response = last[r].response]_vars

\* Both routes have been served, "/" under the environment that holds now and
\* "/version" since: the next GET / is a repeated call, with one in between.
C4_Witness ==
    /\ Served("/") /\ Served("/version")
    /\ last["/"].environ = environ
    /\ last["/version"].environ = environ
    /\ "NAME" \in DOMAIN environ

\* C5: a step in which a response is produced leaves os.environ and every
\* worker's state as they were.
C5_NoSideEffects ==
    [][last' # last => (environ' = environ /\ threads' = threads)]_vars

\* A request was served while NAME was absent, and NAME is absent still.
C5_Witness ==
    /\ Served("/") /\ Served("/version")
    /\ "NAME" \notin DOMAIN last["/"].environ
    /\ last["/"].environ = environ

\* C6: each field of a response is the variable's value in os.environ at the
\* step that produces it (or its default), whatever an earlier response to
\* the same route carried.
C6_Fresh ==
    [][\A r \in Routes :
          last'[r] # last[r] =>
             LET b == last'[r].response.json
             IN  /\ b.service = Expected(environ, "NAME", "inventory-service")
                 /\ b.version = Expected(environ, "VERSION", "1.0.0")
                 /\ r = "/" => b.environment = Expected(environ, "FLASK_ENV", "development")]_vars

\* Each route was served before all three variables changed: set then and
\* absent now, or absent then and set now, or set to another value.
C6_Witness ==
    /\ Served("/") /\ Served("/version")
    /\ last["/"].environ = last["/version"].environ
    /\ "NAME" \in DOMAIN last["/"].environ /\ "NAME" \notin DOMAIN environ
    /\ "VERSION" \notin DOMAIN last["/"].environ /\ "VERSION" \in DOMAIN environ
    /\ "FLASK_ENV" \in DOMAIN last["/"].environ /\ "FLASK_ENV" \in DOMAIN environ
    /\ last["/"].environ["FLASK_ENV"] # environ["FLASK_ENV"]
    /\ ENABLED (GetInfo(NoPayload) /\ last'["/"].response # last["/"].response)

\* C7: under a fixed environment, whatever the interleaving of the workers'
\* steps, the response a worker returns is the one its view returns when it
\* runs alone.
C7_Isolated ==
    \A t \in Threads :
        threads[t].pc = "done" =>
            threads[t].rv = IF threads[t].route = "/" THEN info(environ) ELSE version(environ)

\* One worker has returned from info() while another is inside version().
C7_Witness ==
    \E t, u \in Threads :
        /\ threads[t].pc = "done" /\ threads[t].route = "/"
        /\ threads[u].pc = "version_service"
        /\ "NAME" \in DOMAIN environ

\* C8: of two successive requests to a route under the same environment, one
\* with a query string or body and one with neither, both get the same status
\* and body.
C8_PayloadIgnored ==
    [][\A r \in Routes :
          (/\ Served(r) /\ last'[r] # None
           /\ last'[r].environ = last[r].environ
           /\ last'[r].request # last[r].request
           /\ NoPayload \in {last[r].request, last'[r].request})
             => last'[r].response = last[r].response]_vars

\* Each route was last served a request with a query string and a body, under
\* the environment that holds now.
C8_Witness ==
    \A r \in Routes :
        /\ Served(r)
        /\ last[r].request.args # "" /\ last[r].request.data # ""
        /\ last[r].environ = environ

\* C9: a response of GET /version has no environment and no description
\* field, and equals the previous response of GET /version whenever the two
\* environments agree on which of NAME and VERSION are set and to what.
C9_VersionIgnoresFlaskEnv ==
    [][last'["/version"] # None =>
          /\ DOMAIN last'["/version"].response.json
                \cap {"environment", "description"} = {}
          /\ (/\ Served("/version")
              /\ \A k \in {"NAME", "VERSION"} :
                    /\ k \in DOMAIN last["/version"].environ
                          <=> k \in DOMAIN last'["/version"].environ
                    /\ k \in DOMAIN last["/version"].environ
                          => last["/version"].environ[k] = last'["/version"].environ[k])
                => last'["/version"].response = last["/version"].response]_vars

\* GET /version was served with FLASK_ENV absent; FLASK_ENV is set now and
\* NAME and VERSION are as they were.
C9_Witness ==
    /\ Served("/version")
    /\ DOMAIN last["/version"].environ = {"NAME", "VERSION"}
    /\ DOMAIN environ = {"NAME", "VERSION", "FLASK_ENV"}
    /\ \A k \in {"NAME", "VERSION"} : environ[k] = last["/version"].environ[k]

Default(k) ==
    CASE k = "NAME"      -> "inventory-service"
      [] k = "VERSION"   -> "1.0.0"
      [] k = "FLASK_ENV" -> "development"

Field(k) ==
    CASE k = "NAME"      -> "service"
      [] k = "VERSION"   -> "version"
      [] k = "FLASK_ENV" -> "environment"

\* C10: a response field carries its default exactly when its variable was
\* absent from the environment; a variable set to the empty string yields the
\* empty string.
C10_DefaultOnlyWhenAbsent ==
    \A r \in Routes : \A k \in EnvNames :
        (Served(r) /\ Field(k) \in DOMAIN Body(r)) =>
            /\ Body(r)[Field(k)] = Default(k) <=> k \notin DOMAIN last[r].environ
            /\ (k \in DOMAIN last[r].environ /\ last[r].environ[k] = "")
                  => Body(r)[Field(k)] = ""

\* Both routes were served with every variable set to the empty string.
C10_Witness ==
    \A r \in Routes :
        /\ Served(r)
        /\ DOMAIN last[r].environ = EnvNames
        /\ \A k \in EnvNames : last[r].environ[k] = ""
        /\ Body(r).service = "" /\ Body(r).version = ""

====
